---- MODULE Spec2Model ----
(***************************************************************************)
(* Tile-grid game of src/game.py: Door, World, Player, Camera and the      *)
(* frame loop of Game.  One frame of Game.mainloop in the PLAY state is    *)
(* one step of Spec; DoorSpec drives the public methods of Door directly.  *)
(* LiveSpec and FairDoorSpec are the two without a last tick, for what     *)
(* must happen in the end.                                                 *)
(***************************************************************************)
EXTENDS Integers, FiniteSets, Sequences, TLC

\* ---------------------------------------------------------------- bounds
MaxW == 3
MaxH == 3
MaxDoors == 2
MaxObjects == 1
MaxTiles == 4
MaxTick == 6

\* ------------------------------------------------------ program constants
SCREEN_WIDTH == 400
SCREEN_HEIGHT == 300
\* columns of the player sprite sheet: len(sprites[direction])
WalkFrames == 4
\* Player.speed, tiles per move
speed == 1

\* tile sizes of the map (tiled_map.tilewidth, even) and lengths of the
\* door sprite row (len(Door.sprites)) the model is run with
TileSizes == {4}
DoorFrameCounts == {2, 4}

Directions == {"UP", "DOWN", "LEFT", "RIGHT"}
None == "NONE"

VARIABLES
    width, height, tilesize, objects,   \* World: the map
    nframes,                            \* len(Door.sprites)
    doors,                              \* World.doors: (x,y) -> Door
    player,                             \* Player
    camera,                             \* Camera.x, Camera.y
    actions,                            \* Game.actions['direction']
    space,                              \* K_SPACE as Player.update last read it; FALSE when it did not
    branch,                             \* the path the last Player.update took
    prev,                               \* player and doors before the last frame
    mid,                                \* doors after Player.update, before World.update
    walk,                               \* the walk in progress or just finished
    rt,                                 \* per door: progress along the round-trip script
    age,                                \* per door: update() calls since it left rest
    lastop                              \* DoorSpec: the last method called on a door

vars == <<width, height, tilesize, objects, nframes, doors, player, camera,
          actions, space, branch, prev, mid, walk, rt, age, lastop>>

\* ------------------------------------------------------------------ Door
NewDoor == [state |-> "CLOSED", anim_frame |-> 0]

\* open() that forgets to test the state
DoorOpenUnguarded(d) == [d EXCEPT !.state = "OPENING", !.anim_frame = 0]

DoorOpen(d) ==
    IF d.state = "CLOSED"
    THEN [d EXCEPT !.state = "OPENING", !.anim_frame = 0]
    ELSE d

\* close() that forgets to test the state
DoorCloseUnguarded(d) == [d EXCEPT !.state = "CLOSING"]

DoorClose(d) ==
    IF d.state = "OPEN"
    THEN [d EXCEPT !.state = "CLOSING"]
    ELSE d

\* toggle() that flips the door at once, with no animation
DoorToggleInstant(d) ==
    IF d.state = "CLOSED" THEN [state |-> "OPEN", anim_frame |-> nframes - 1]
    ELSE IF d.state = "OPEN" THEN [state |-> "CLOSED", anim_frame |-> 0]
    ELSE d

\* toggle() that turns a door round in the middle of its transition
DoorToggleReversing(d) ==
    IF d.state = "CLOSED" THEN DoorOpen(d)
    ELSE IF d.state = "OPEN" THEN DoorClose(d)
    ELSE IF d.state = "OPENING" THEN [d EXCEPT !.state = "CLOSING"]
    ELSE [d EXCEPT !.state = "OPENING"]

DoorToggle(d) ==
    IF d.state = "CLOSED" THEN DoorOpen(d)
    ELSE IF d.state = "OPEN" THEN DoorClose(d)
    ELSE d

is_open(d) == d.state = "OPEN"

\* update() that compares with len(sprites) instead of len(sprites) - 1
DoorUpdateLate(d) ==
    IF d.state = "OPENING"
    THEN LET f == d.anim_frame + 1
         IN  [state |-> IF f = nframes THEN "OPEN" ELSE "OPENING",
              anim_frame |-> f]
    ELSE IF d.state = "CLOSING"
    THEN LET f == d.anim_frame - 1
         IN  [state |-> IF f = 0 THEN "CLOSED" ELSE "CLOSING",
              anim_frame |-> f]
    ELSE d

DoorUpdate(d) ==
    IF d.state = "OPENING"
    THEN LET f == d.anim_frame + 1
         IN  [state |-> IF f = nframes - 1 THEN "OPEN" ELSE "OPENING",
              anim_frame |-> f]
    ELSE IF d.state = "CLOSING"
    THEN LET f == d.anim_frame - 1
         IN  [state |-> IF f = 0 THEN "CLOSED" ELSE "CLOSING",
              anim_frame |-> f]
    ELSE d

\* ----------------------------------------------------------------- World
WorldUpdate(ds) == [p \in DOMAIN ds |-> DoorUpdate(ds[p])]

\* will_collide that lets a door block only while it is CLOSED
will_collide_closed_only(ds, x, y) ==
    IF x < 0 \/ x >= width \/ y < 0 \/ y >= height THEN TRUE
    ELSE IF objects[y][x] # 0 THEN TRUE
    ELSE IF <<x, y>> \in DOMAIN ds /\ ds[<<x, y>>].state = "CLOSED" THEN TRUE
    ELSE FALSE

\* World.will_collide(x, y), ds being self.doors
will_collide(ds, x, y) ==
    IF x < 0 \/ x >= width \/ y < 0 \/ y >= height THEN TRUE
    ELSE IF objects[y][x] # 0 THEN TRUE
    ELSE IF <<x, y>> \in DOMAIN ds /\ ~is_open(ds[<<x, y>>]) THEN TRUE
    ELSE FALSE

\* ---------------------------------------------------------------- Player
NewPlayer(x, y) ==
    [x |-> x, y |-> y, state |-> "IDLE", direction |-> "DOWN",
     anim_frame |-> 0, tick |-> 0, rectx |-> 0, recty |-> 0]

movemap(direction) ==
    CASE direction = "UP"    -> <<0, -speed>>
      [] direction = "DOWN"  -> <<0, speed>>
      [] direction = "LEFT"  -> <<-speed, 0>>
      [] direction = "RIGHT" -> <<speed, 0>>

\* the tile in front of the player
Front(p) == <<p.x + movemap(p.direction)[1], p.y + movemap(p.direction)[2]>>

\* WALK branch that shifts the sprite by a whole tile each animation frame
PlayerWalkFullShift(p) ==
    IF p.tick % 2 # 0 THEN [player |-> p, branch |-> "noop"]
    ELSE LET d  == movemap(p.direction)
             af == (p.anim_frame + 1) % WalkFrames
             q  == IF af % 2 = 0
                   THEN [p EXCEPT !.anim_frame = af, !.x = @ + d[1],
                                  !.y = @ + d[2], !.state = "IDLE"]
                   ELSE [p EXCEPT !.anim_frame = af]
         IN  [player |-> [q EXCEPT !.rectx = @ + d[1] * tilesize,
                                   !.recty = @ + d[2] * tilesize],
              branch |-> IF af % 2 = 0 THEN "commit" ELSE "step"]

\* WALK branch that progresses on odd ticks instead of even ones
PlayerWalkOddTicks(p) ==
    IF p.tick % 2 # 1 THEN [player |-> p, branch |-> "noop"]
    ELSE LET d  == movemap(p.direction)
             af == (p.anim_frame + 1) % WalkFrames
             q  == IF af % 2 = 0
                   THEN [p EXCEPT !.anim_frame = af, !.x = @ + d[1],
                                  !.y = @ + d[2], !.state = "IDLE"]
                   ELSE [p EXCEPT !.anim_frame = af]
         IN  [player |-> [q EXCEPT !.rectx = @ + (d[1] * tilesize) \div 2,
                                   !.recty = @ + (d[2] * tilesize) \div 2],
              branch |-> IF af % 2 = 0 THEN "commit" ELSE "step"]

\* The WALK branch of Player.update, p.tick already incremented.
PlayerWalk(p) ==
    IF p.tick % 2 # 0 THEN [player |-> p, branch |-> "noop"]
    ELSE LET d  == movemap(p.direction)
             af == (p.anim_frame + 1) % WalkFrames
             q  == IF af % 2 = 0
                   THEN [p EXCEPT !.anim_frame = af, !.x = @ + d[1],
                                  !.y = @ + d[2], !.state = "IDLE"]
                   ELSE [p EXCEPT !.anim_frame = af]
         IN  [player |-> [q EXCEPT !.rectx = @ + (d[1] * tilesize) \div 2,
                                   !.recty = @ + (d[2] * tilesize) \div 2],
              branch |-> IF af % 2 = 0 THEN "commit" ELSE "step"]

\* IDLE branch that enters WALK without asking the world
PlayerIdleNoGate(p, ds, dir) ==
    IF dir = p.direction
    THEN [player |-> [p EXCEPT !.state = "WALK"], branch |-> "enter"]
    ELSE IF dir # None
    THEN [player |-> [p EXCEPT !.direction = dir], branch |-> "turn"]
    ELSE [player |-> p, branch |-> "idle"]

\* IDLE branch that turns only towards a tile that would not collide
PlayerIdleGatedTurn(p, ds, dir) ==
    IF dir = p.direction
    THEN LET d == movemap(dir)
         IN  IF will_collide(ds, p.x + d[1], p.y + d[2])
             THEN [player |-> p, branch |-> "blocked"]
             ELSE [player |-> [p EXCEPT !.state = "WALK"], branch |-> "enter"]
    ELSE IF dir # None /\ ~will_collide(ds, p.x + movemap(dir)[1], p.y + movemap(dir)[2])
    THEN [player |-> [p EXCEPT !.direction = dir], branch |-> "turn"]
    ELSE [player |-> p, branch |-> "idle"]

\* The IDLE branch of Player.update.
PlayerIdle(p, ds, dir) ==
    IF dir = p.direction
    THEN LET d == movemap(dir)
         IN  IF will_collide(ds, p.x + d[1], p.y + d[2])
             THEN [player |-> p, branch |-> "blocked"]
             ELSE [player |-> [p EXCEPT !.state = "WALK"], branch |-> "enter"]
    ELSE IF dir # None
    THEN [player |-> [p EXCEPT !.direction = dir], branch |-> "turn"]
    ELSE [player |-> p, branch |-> "idle"]

\* update that toggles every door of the world, not only the one in front
PlayerUpdateToggleAll(p0, ds, dir, sp) ==
    LET p == [p0 EXCEPT !.tick = @ + 1]
        f == Front(p)
    IN  IF f \in DOMAIN ds /\ sp
        THEN [player |-> p, doors |-> [q \in DOMAIN ds |-> DoorToggle(ds[q])],
              branch |-> "interact"]
        ELSE LET r == IF p.state = "IDLE" THEN PlayerIdle(p, ds, dir)
                      ELSE PlayerWalk(p)
             IN  [player |-> r.player, doors |-> ds, branch |-> r.branch]

\* update that lets the player turn in the middle of a walk
PlayerUpdateTurnInWalk(p0, ds, dir, sp) ==
    LET p == [p0 EXCEPT !.tick = @ + 1]
        f == Front(p)
    IN  IF f \in DOMAIN ds /\ sp
        THEN [player |-> p, doors |-> [ds EXCEPT ![f] = DoorToggle(@)],
              branch |-> "interact"]
        ELSE LET t == IF dir # None THEN [p EXCEPT !.direction = dir] ELSE p
                 r == IF p.state = "IDLE" THEN PlayerIdle(p, ds, dir)
                      ELSE PlayerWalk(t)
             IN  [player |-> r.player, doors |-> ds, branch |-> r.branch]

\* update that toggles the door and then goes on to the movement code
PlayerUpdateFallThrough(p0, ds, dir, sp) ==
    LET p  == [p0 EXCEPT !.tick = @ + 1]
        f  == Front(p)
        d1 == IF f \in DOMAIN ds /\ sp
              THEN [ds EXCEPT ![f] = DoorToggle(@)] ELSE ds
        r  == IF p.state = "IDLE" THEN PlayerIdle(p, d1, dir)
              ELSE PlayerWalk(p)
    IN  [player |-> r.player, doors |-> d1,
         branch |-> IF f \in DOMAIN ds /\ sp THEN "interact" ELSE r.branch]

\* Player.update(actions) with the SPACE key held or not: the player, the
\* doors and the path taken.
PlayerUpdate(p0, ds, dir, sp) ==
    LET p == [p0 EXCEPT !.tick = @ + 1]
        f == Front(p)
    IN  IF f \in DOMAIN ds /\ sp
        THEN [player |-> p, doors |-> [ds EXCEPT ![f] = DoorToggle(@)],
              branch |-> "interact"]
        ELSE LET r == IF p.state = "IDLE" THEN PlayerIdle(p, ds, dir)
                      ELSE PlayerWalk(p)
             IN  [player |-> r.player, doors |-> ds, branch |-> r.branch]

\* ---------------------------------------------------------------- Camera
\* Camera.__init__: vw, vh = viewport_size * tilesize, viewport_size being
\* screen_dims / (tilesize * 2)
vw == SCREEN_WIDTH \div 2
vh == SCREEN_HEIGHT \div 2

\* utils.clamp
clamp(n, a, b) ==
    LET m == IF b < n THEN b ELSE n
    IN  IF m > a THEN m ELSE a

\* Camera.update with the two clamping lines not commented out
CameraUpdateClamped(p) ==
    [x |-> clamp(p.rectx - vw \div 2, 0, width * tilesize - vw),
     y |-> clamp(p.recty - vh \div 2, 0, height * tilesize - vh)]

CameraUpdate(p) == [x |-> p.rectx - vw \div 2, y |-> p.recty - vh \div 2]

\* ------------------------------------------------------------------ Game
\* Game.play with world.update moved in front of player.update
GamePlayDoorsFirst(p, ds, dir, sp) ==
    LET r == PlayerUpdate(p, WorldUpdate(ds), dir, sp)
    IN  [player |-> r.player, mid |-> r.doors, doors |-> r.doors,
         camera |-> CameraUpdate(r.player), branch |-> r.branch]

\* Game.play: player.update, world.update, camera.update.  mid is the
\* doors between the first two.
GamePlay(p, ds, dir, sp) ==
    LET r == PlayerUpdate(p, ds, dir, sp)
    IN  [player |-> r.player, mid |-> r.doors, doors |-> WorldUpdate(r.doors),
         camera |-> CameraUpdate(r.player), branch |-> r.branch]

\* ------------------------------------------------------- history helpers
\* The round trip of a fresh door: toggle, nframes-1 updates, toggle,
\* nframes-1 updates.  Script(k) is its k-th call.
\* rt[p].on: the calls made on door p so far are the first rt[p].n calls
\* of the script.
Script(k) == IF k = 1 \/ k = nframes + 1 THEN "toggle" ELSE "update"
RtStart == [on |-> TRUE, n |-> 0]
RtStep(r, op) ==
    IF r.on /\ r.n < 2 * nframes /\ Script(r.n + 1) = op
    THEN [on |-> TRUE, n |-> r.n + 1]
    ELSE [on |-> FALSE, n |-> 0]

NoWalk == [x |-> 0, y |-> 0, t0 |-> 0, ticks |-> 0, noops |-> 0,
           steps |-> 0, inter |-> FALSE, done |-> FALSE]

\* the walk record after a frame that took path b from player p to q
WalkAfter(w, p, q, b) ==
    IF b = "enter"
    THEN [x |-> p.x, y |-> p.y, t0 |-> q.tick, ticks |-> 1, noops |-> 0,
          steps |-> 0, inter |-> FALSE, done |-> FALSE]
    ELSE IF p.state = "WALK"
    THEN [w EXCEPT !.ticks = @ + 1,
                   !.noops = IF b = "noop" THEN @ + 1 ELSE @,
                   !.steps = IF b \in {"step", "commit"} THEN @ + 1 ELSE @,
                   !.inter = @ \/ b = "interact",
                   !.done = (b = "commit")]
    ELSE NoWalk

Resting(d) == d.state \in {"CLOSED", "OPEN"}

\* the age of a door that call op took from d0 to d1
AgeStep(a, d0, d1, op) ==
    IF Resting(d1) \/ Resting(d0) THEN 0
    ELSE IF op = "update" THEN a + 1
    ELSE a

NoOp == [op |-> "none", pos |-> <<0, 0>>, pre |-> NewDoor]

\* ------------------------------------------------------------------ Init
Tiles(w, h) == (0 .. w - 1) \X (0 .. h - 1)

Init ==
    /\ width \in 1 .. MaxW
    /\ height \in 1 .. MaxH
    /\ width * height <= MaxTiles
    /\ tilesize \in TileSizes
    /\ nframes \in DoorFrameCounts
    /\ objects \in [0 .. height - 1 -> [0 .. width - 1 -> {0, 1}]]
    /\ objects[0][0] = 0
    /\ Cardinality({t \in Tiles(width, height) : objects[t[2]][t[1]] # 0}) <= MaxObjects
    /\ \E D \in SUBSET (Tiles(width, height) \ {<<0, 0>>}) :
          /\ Cardinality(D) <= MaxDoors
          /\ doors = [p \in D |-> NewDoor]
    /\ player = NewPlayer(0, 0)
    /\ camera = [x |-> 0, y |-> 0]
    /\ actions = None
    /\ space = FALSE
    /\ branch = "none"
    /\ prev = [player |-> player, doors |-> doors]
    /\ mid = doors
    /\ walk = NoWalk
    /\ rt = [p \in DOMAIN doors |-> RtStart]
    /\ age = [p \in DOMAIN doors |-> 0]
    /\ lastop = NoOp

\* --------------------------------------------------------------- actions
\* One iteration of Game.mainloop in state PLAY: __handle_events leaves
\* actions['direction'] = dir, then play() runs player.update, world.update
\* and camera.update.  sp is the state of the SPACE key, which Player.update
\* reads only when a door stands on the tile in front.
Frame(dir, sp) ==
    /\ player.tick < MaxTick
    /\ LET r  == GamePlay(player, doors, dir, sp)
           f  == Front(player)
           r1 == IF r.branch = "interact"
                 THEN [rt EXCEPT ![f] = RtStep(@, "toggle")] ELSE rt
       IN  /\ actions' = dir
           /\ space' = (f \in DOMAIN doors /\ sp)
           /\ player' = r.player
           /\ mid' = r.mid
           /\ doors' = r.doors
           /\ camera' = r.camera
           /\ branch' = r.branch
           /\ prev' = [player |-> player, doors |-> doors]
           /\ walk' = WalkAfter(walk, player, r.player, r.branch)
           /\ rt' = [p \in DOMAIN doors |-> RtStep(r1[p], "update")]
           /\ age' = [p \in DOMAIN doors |->
                        AgeStep(AgeStep(age[p], doors[p], r.mid[p], "toggle"),
                                r.mid[p], r.doors[p], "update")]
    /\ UNCHANGED <<width, height, tilesize, objects, nframes, lastop>>

Play == \E dir \in Directions \cup {None}, sp \in BOOLEAN : Frame(dir, sp)

Next == Play

Spec == Init /\ [][Next]_vars

\* ------------------------------------------- the methods of Door, directly
\* A caller of the Door class calls one public method on the door at p.
Call(p, op, d) ==
    /\ doors' = [doors EXCEPT ![p] = d]
    /\ rt' = [rt EXCEPT ![p] = RtStep(@, op)]
    /\ age' = [age EXCEPT ![p] = AgeStep(@, doors[p], d, op)]
    /\ lastop' = [op |-> op, pos |-> p, pre |-> doors[p]]
    /\ UNCHANGED <<width, height, tilesize, objects, nframes, player, camera,
                   actions, space, branch, prev, mid, walk>>

CallOpen == \E p \in DOMAIN doors : Call(p, "open", DoorOpen(doors[p]))
CallClose == \E p \in DOMAIN doors : Call(p, "close", DoorClose(doors[p]))
CallToggle == \E p \in DOMAIN doors : Call(p, "toggle", DoorToggle(doors[p]))
CallUpdate == \E p \in DOMAIN doors : Call(p, "update", DoorUpdate(doors[p]))

DoorNext == CallOpen \/ CallClose \/ CallToggle \/ CallUpdate

DoorSpec == Init /\ [][DoorNext]_vars

\* The same calls for as long as one likes, the history of the calls not
\* kept (rt off, lastop none).
RtOff == [on |-> FALSE, n |-> 0]

Apply(p, op, d) ==
    /\ p \in DOMAIN doors
    /\ doors' = [doors EXCEPT ![p] = d]
    /\ age' = [age EXCEPT ![p] = AgeStep(@, doors[p], d, op)]
    /\ rt' = [q \in DOMAIN doors |-> RtOff]
    /\ lastop' = NoOp
    /\ UNCHANGED <<width, height, tilesize, objects, nframes, player, camera,
                   actions, space, branch, prev, mid, walk>>

AllTiles == (0 .. MaxW - 1) \X (0 .. MaxH - 1)
OpenAt(p) == Apply(p, "open", DoorOpen(doors[p]))
CloseAt(p) == Apply(p, "close", DoorClose(doors[p]))
ToggleAt(p) == Apply(p, "toggle", DoorToggle(doors[p]))
UpdateAt(p) == Apply(p, "update", DoorUpdate(doors[p]))

FairOpen == \E p \in AllTiles : OpenAt(p)
FairClose == \E p \in AllTiles : CloseAt(p)
FairToggle == \E p \in AllTiles : ToggleAt(p)
FairUpdate == \E p \in AllTiles : UpdateAt(p)

FairDoorNext == FairOpen \/ FairClose \/ FairToggle \/ FairUpdate

\* World.update calls update() on every door in every tick, so while the
\* game runs no door waits for its update() for ever.
FairDoorSpec ==
    Init /\ [][FairDoorNext]_vars /\ \A p \in AllTiles : WF_vars(UpdateAt(p))

\* ------------------------------------------------ the game without an end
\* Frame for as many ticks as one likes: the tick counter is kept modulo
\* 2, all that Player.update reads of it (tick % 2), and the walk record
\* is not kept.
LiveFrame(dir, sp) ==
    /\ LET r  == GamePlay(player, doors, dir, sp)
           f  == Front(player)
           r1 == IF r.branch = "interact"
                 THEN [rt EXCEPT ![f] = RtStep(@, "toggle")] ELSE rt
       IN  /\ actions' = dir
           /\ space' = (f \in DOMAIN doors /\ sp)
           /\ player' = [r.player EXCEPT !.tick = @ % 2]
           /\ mid' = r.mid
           /\ doors' = r.doors
           /\ camera' = r.camera
           /\ branch' = r.branch
           /\ prev' = [player |-> player, doors |-> doors]
           /\ rt' = [p \in DOMAIN doors |-> RtStep(r1[p], "update")]
           /\ age' = [p \in DOMAIN doors |->
                        AgeStep(AgeStep(age[p], doors[p], r.mid[p], "toggle"),
                                r.mid[p], r.doors[p], "update")]
    /\ UNCHANGED <<width, height, tilesize, objects, nframes, lastop, walk>>

LivePlay == \E dir \in Directions \cup {None}, sp \in BOOLEAN : LiveFrame(dir, sp)

\* Game.mainloop goes on calling play() as long as the state is PLAY.
LiveSpec == Init /\ [][LivePlay]_vars /\ WF_vars(LivePlay)

\* ======================================================== the properties
\* abbreviations over the last frame
Pre == prev.player
PreFront == Front(prev.player)
FramePlayed == branch # "none"
\* the interaction of Player.update fired in the last frame
Interacted == FramePlayed /\ space /\ PreFront \in DOMAIN prev.doors
SamePlace(p, q) ==
    /\ p.x = q.x /\ p.y = q.y
    /\ p.rectx = q.rectx /\ p.recty = q.recty
InGrid(x, y) == x >= 0 /\ x < width /\ y >= 0 /\ y < height
\* coordinates in the grid and one step outside it on every side
XCoords == -1 .. MaxW
YCoords == -1 .. MaxH

\* C1: will_collide(x,y) is true exactly when (x,y) is outside the grid, or
\* the object layer holds a non-zero tile id there, or a door stands there
\* whose state is not OPEN; every out-of-bounds coordinate collides.
C1_WillCollide ==
    \A x \in XCoords, y \in YCoords :
        will_collide(doors, x, y)
          <=> \/ ~InGrid(x, y)
              \/ objects[y][x] # 0
              \/ \E p \in DOMAIN doors :
                    p = <<x, y>> /\ doors[p].state \in {"CLOSED", "OPENING", "CLOSING"}

\* the player asked about a free in-grid tile whose door was mid-transition
\* and was refused
C1_Witness ==
    /\ branch = "blocked"
    /\ InGrid(PreFront[1], PreFront[2])
    /\ objects[PreFront[2]][PreFront[1]] = 0
    /\ PreFront \in DOMAIN prev.doors
    /\ prev.doors[PreFront].state = "OPENING"
    /\ will_collide(prev.doors, PreFront[1], PreFront[2])

\* C2: a fresh door is CLOSED at frame 0; toggle() and nframes-1 update()s
\* leave it OPEN at frame nframes-1; another toggle() and nframes-1
\* update()s leave it CLOSED at frame 0.
C2_RoundTrip ==
    \A p \in DOMAIN doors :
        /\ rt[p].on /\ rt[p].n = 0 =>
              doors[p] = [state |-> "CLOSED", anim_frame |-> 0]
        /\ rt[p].on /\ rt[p].n = nframes =>
              doors[p] = [state |-> "OPEN", anim_frame |-> nframes - 1]
        /\ rt[p].on /\ rt[p].n = 2 * nframes =>
              doors[p] = [state |-> "CLOSED", anim_frame |-> 0]

\* a door of four frames has gone the whole way round
C2_Witness ==
    \E p \in DOMAIN doors :
        /\ rt[p].on /\ rt[p].n = 2 * nframes
        /\ nframes = 4
        /\ doors[p].state = "CLOSED"

\* C3: open() outside CLOSED, close() outside OPEN and toggle() in OPENING
\* or CLOSING leave the door's state and anim_frame as they were.
C3_InvalidNoop ==
    /\ lastop.op = "open" /\ lastop.pre.state # "CLOSED"
          => doors[lastop.pos] = lastop.pre
    /\ lastop.op = "close" /\ lastop.pre.state # "OPEN"
          => doors[lastop.pos] = lastop.pre
    /\ lastop.op = "toggle" /\ lastop.pre.state \in {"OPENING", "CLOSING"}
          => doors[lastop.pos] = lastop.pre

\* open() has just been called on a door that was closing, past frame 0
C3_Witness ==
    /\ lastop.op = "open"
    /\ lastop.pre.state = "CLOSING"
    /\ lastop.pre.anim_frame > 0

\* C4: the player leaves IDLE for WALK only when the requested direction is
\* its facing and the tile in front does not collide at that tick; when it
\* does collide the player stays IDLE where it is, facing as before.  On
\* the 3x1 grid with objects [0,1,0] the player never leaves tile (0,0).
C4_MoveGated ==
    /\ FramePlayed /\ Pre.state = "IDLE" /\ player.state = "WALK"
          => /\ actions = Pre.direction
             /\ ~will_collide(prev.doors, PreFront[1], PreFront[2])
    /\ FramePlayed /\ Pre.state = "IDLE" /\ actions = Pre.direction
         /\ will_collide(prev.doors, PreFront[1], PreFront[2])
          => /\ player.state = "IDLE"
             /\ SamePlace(player, Pre)
             /\ player.direction = Pre.direction
    /\ width = 3 /\ height = 1 /\ objects[0] = [x \in 0 .. 2 |-> IF x = 1 THEN 1 ELSE 0]
          => player.x = 0 /\ player.y = 0

\* on the 3x1 grid the player, facing RIGHT at (0,0), asked for RIGHT again
C4_Witness ==
    /\ width = 3 /\ height = 1
    /\ objects[0] = [x \in 0 .. 2 |-> IF x = 1 THEN 1 ELSE 0]
    /\ DOMAIN doors = {}
    /\ Pre.direction = "RIGHT" /\ Pre.state = "IDLE"
    /\ actions = "RIGHT"
    /\ branch = "blocked"
    /\ player.x = 0 /\ player.y = 0

\* C5: a walk that ends has moved the player by exactly one unit vector of
\* its facing from the tile where the walk began, and whenever the player
\* is IDLE its pixel position is tile position times tilesize.
C5_WalkOneTile ==
    /\ player.state = "IDLE"
          => /\ player.rectx = player.x * tilesize
             /\ player.recty = player.y * tilesize
    /\ FramePlayed /\ Pre.state = "WALK" /\ player.state = "IDLE"
          => /\ player.x = walk.x + movemap(player.direction)[1]
             /\ player.y = walk.y + movemap(player.direction)[2]
             /\ player.direction = Pre.direction

\* a walk to the right has just ended one column further on
C5_Witness ==
    /\ Pre.state = "WALK" /\ player.state = "IDLE"
    /\ player.direction = "RIGHT"
    /\ player.x = walk.x + 1 /\ player.y = walk.y
    /\ player.rectx = player.x * tilesize
    /\ tilesize \in {t \in TileSizes : t % 2 = 0}

\* C6: every step from IDLE to WALK resets anim_frame to 0, also for walks
\* begun after earlier walks have ended.
C6_EnterResetsFrame ==
    FramePlayed /\ Pre.state = "IDLE" /\ player.state = "WALK"
        => player.anim_frame = 0

\* C7: an IDLE player with no interaction firing, asked for a direction
\* other than its facing, faces that direction after the tick, is still
\* IDLE and has not moved, whatever would collide around it.
C7_TurnInPlace ==
    FramePlayed /\ Pre.state = "IDLE" /\ ~Interacted
      /\ actions # None /\ actions # Pre.direction
        => /\ player.direction = actions
           /\ player.state = "IDLE"
           /\ SamePlace(player, Pre)

\* the player has turned to face a tile that collides, away from one that
\* does not
C7_Witness ==
    /\ branch = "turn"
    /\ Pre.direction # player.direction
    /\ will_collide(prev.doors, Front(player)[1], Front(player)[2])
    /\ ~will_collide(prev.doors, PreFront[1], PreFront[2])

\* C8: when a door stands on the tile in front and the interact key is
\* down, Player.update toggles that door and no other (CLOSED becomes
\* OPENING) and leaves the player's tile, pixel position, facing, state
\* and anim_frame alone, IDLE or WALK, whatever direction is requested.
C8_InteractFirst ==
    Interacted
        => /\ LET d == prev.doors[PreFront]
              IN  mid[PreFront] =
                     CASE d.state = "CLOSED" -> [state |-> "OPENING", anim_frame |-> 0]
                       [] d.state = "OPEN" -> [state |-> "CLOSING", anim_frame |-> d.anim_frame]
                       [] OTHER -> d
           /\ \A p \in DOMAIN prev.doors \ {PreFront} : mid[p] = prev.doors[p]
           /\ SamePlace(player, Pre)
           /\ player.direction = Pre.direction
           /\ player.state = Pre.state
           /\ player.anim_frame = Pre.anim_frame

\* facing a CLOSED door, the player pressed the interact key together with
\* the direction it faces
C8_Witness ==
    /\ Interacted
    /\ prev.doors[PreFront].state = "CLOSED"
    /\ mid[PreFront].state = "OPENING"
    /\ actions = Pre.direction
    /\ Cardinality(DOMAIN doors) = 2

\* C9: every door has 0 <= anim_frame <= nframes-1; CLOSED doors are at
\* frame 0, OPEN doors at frame nframes-1, OPENING doors at most at frame
\* nframes-2 and CLOSING doors at least at frame 1.
C9_DoorFrames ==
    \A p \in DOMAIN doors :
        LET d == doors[p]
        IN  /\ d.anim_frame >= 0 /\ d.anim_frame <= nframes - 1
            /\ d.state = "CLOSED" => d.anim_frame = 0
            /\ d.state = "OPEN" => d.anim_frame = nframes - 1
            /\ d.state = "OPENING" => d.anim_frame <= nframes - 2
            /\ d.state = "CLOSING" => d.anim_frame >= 1

\* a door is half way shut after close() and update() calls
C9_Witness ==
    \E p \in DOMAIN doors :
        /\ doors[p].state = "CLOSING"
        /\ doors[p].anim_frame = 1
        /\ nframes = 4
        /\ lastop.op = "update" /\ lastop.pos = p

\* C10 as stated: with no interaction firing every walk takes 4 ticks, the
\* entering tick and the returning tick included, 2 of them no-op ticks in
\* WALK, whatever the tick counter was when the walk began.
C10_FourTicks ==
    walk.done /\ ~walk.inter => walk.ticks = 4 /\ walk.noops = 2

\* C10 amended: with no interaction firing every walk advances on exactly
\* 2 ticks; begun on an odd tick it takes 4 ticks with 1 no-op tick in
\* WALK, begun on an even tick it takes 5 ticks with 2 no-op ticks.
C10_Cadence ==
    walk.done /\ ~walk.inter
        => /\ walk.steps = 2
           /\ walk.t0 % 2 = 1 => walk.ticks = 4 /\ walk.noops = 1
           /\ walk.t0 % 2 = 0 => walk.ticks = 5 /\ walk.noops = 2

\* a walk begun on an even tick has ended
C10_Witness ==
    /\ walk.done /\ ~walk.inter
    /\ walk.t0 % 2 = 0
    /\ walk.ticks = 5
    /\ player.state = "IDLE"

\* C11 as stated: in every tick all doors are advanced first, then the
\* player is updated, then the camera: the player's update works on doors
\* already advanced for this tick, and nothing moves a door after it.
C11_DoorsFirst ==
    FramePlayed
        => /\ doors = mid
           /\ \A p \in DOMAIN prev.doors :
                 prev.doors[p].state \in {"OPENING", "CLOSING"}
                    => mid[p] # prev.doors[p]

\* C11 amended: in every tick the player is updated first, then all doors
\* are advanced, then the camera is recentered: the player's update works
\* on the doors as the previous tick left them (a door that finishes
\* opening in this tick still blocks), every door it leaves in transition
\* moves one frame afterwards, and the camera follows the updated player.
C11_PlayerFirst ==
    FramePlayed
        => /\ \A p \in DOMAIN prev.doors \ {PreFront} : mid[p] = prev.doors[p]
           /\ ~Interacted => mid = prev.doors
           /\ \A p \in DOMAIN mid :
                 /\ mid[p].state = "OPENING"
                       => doors[p].anim_frame = mid[p].anim_frame + 1
                 /\ mid[p].state = "CLOSING"
                       => doors[p].anim_frame = mid[p].anim_frame - 1
           /\ Pre.state = "IDLE" /\ ~Interacted /\ actions = Pre.direction
                /\ PreFront \in DOMAIN prev.doors
                /\ prev.doors[PreFront].state # "OPEN"
                 => player.state = "IDLE"
           /\ camera.x = player.rectx - vw \div 2
           /\ camera.y = player.recty - vh \div 2

\* the player was refused at a door that finished opening in the same tick
C11_Witness ==
    /\ branch = "blocked"
    /\ PreFront \in DOMAIN prev.doors
    /\ prev.doors[PreFront].state = "OPENING"
    /\ doors[PreFront].state = "OPEN"
    /\ player.state = "IDLE"

\* C14: the player's tile is always inside the grid: 0 <= x < width and
\* 0 <= y < height.
C14_TileInGrid ==
    /\ player.x >= 0 /\ player.x < width
    /\ player.y >= 0 /\ player.y < height

\* having walked to the bottom row, the player asked to walk further down
\* and was refused
C14_Witness ==
    /\ height >= 2
    /\ player.y = height - 1
    /\ Pre.y = height - 1
    /\ actions = "DOWN"
    /\ branch = "blocked"

C16_CameraCentered ==
    FramePlayed
        => /\ 2 * camera.x = 2 * player.rectx - vw
           /\ 2 * camera.y = 2 * player.recty - vh

\* the player has moved and the camera, following it, starts left of the
\* world and ends right of it
C16_Witness ==
    /\ branch = "commit"
    /\ player.recty > 0
    /\ camera.x < 0 /\ camera.y < 0
    /\ camera.x + vw > width * tilesize

\* C17: one call of open, close, toggle or update leaves a door's state as
\* it was or moves it one step along CLOSED, OPENING, OPEN, CLOSING, CLOSED.
CycleSteps ==
    {<<"CLOSED", "OPENING">>, <<"OPENING", "OPEN">>,
     <<"OPEN", "CLOSING">>, <<"CLOSING", "CLOSED">>}

C17_DoorCycle ==
    lastop.op # "none"
        => \/ doors[lastop.pos].state = lastop.pre.state
           \/ <<lastop.pre.state, doors[lastop.pos].state>> \in CycleSteps

\* update() has just shut a closing door
C17_Witness ==
    /\ lastop.op = "update"
    /\ lastop.pre.state = "CLOSING"
    /\ doors[lastop.pos].state = "CLOSED"

\* C18: World.update leaves CLOSED and OPEN doors as they are; a tick
\* changes a resting door only when the player toggles it, which it can
\* only do to the door on the tile in front; no other door is touched by
\* that toggle.
C18_DoorsIndependent ==
    FramePlayed
        => \A p \in DOMAIN doors :
              /\ Resting(mid[p]) => doors[p] = mid[p]
              /\ Resting(prev.doors[p]) /\ doors[p] # prev.doors[p]
                    => Interacted /\ p = PreFront
              /\ p # PreFront => mid[p] = prev.doors[p]
              /\ p # PreFront /\ Resting(prev.doors[p]) => doors[p] = prev.doors[p]

\* of two resting doors the player toggled the one in front and the other
\* stayed as it was
C18_Witness ==
    /\ Interacted
    /\ Cardinality(DOMAIN doors) = 2
    /\ doors[PreFront] # prev.doors[PreFront]
    /\ \A p \in DOMAIN doors \ {PreFront} :
          Resting(prev.doors[p]) /\ doors[p] = prev.doors[p]

\* C19: the player never stands on a tile that collides: not on an
\* occupied object tile and not on a door that is CLOSED, OPENING or
\* CLOSING.
C19_NeverOnBlockingTile ==
    ~will_collide(doors, player.x, player.y)

\* C20: while the player is in WALK its facing does not change whatever is
\* requested, and its tile changes only on the tick that takes it from
\* WALK to IDLE, by one unit vector of its facing.
C20_WalkCommitted ==
    FramePlayed
        => /\ Pre.state = "WALK" => player.direction = Pre.direction
           /\ player.x # Pre.x \/ player.y # Pre.y
                 => /\ Pre.state = "WALK" /\ player.state = "IDLE"
                    /\ ~Interacted
                    /\ player.x = Pre.x + movemap(Pre.direction)[1]
                    /\ player.y = Pre.y + movemap(Pre.direction)[2]

\* a walk ended on a tick on which another direction was requested
C20_Witness ==
    /\ Pre.state = "WALK" /\ player.state = "IDLE"
    /\ actions \in Directions \ {Pre.direction}
    /\ player.direction = Pre.direction
    /\ player.y = Pre.y + 1

\* C12: whenever the player is in WALK it is IDLE again some ticks later,
\* whatever directions are requested and however the interact key is held.
C12_WalkTerminates ==
    (player.state = "WALK") ~> (player.state = "IDLE")

\* C13: a door that is OPENING is OPEN, and a door that is CLOSING is
\* CLOSED, after at most nframes-1 further update() calls, whatever
\* open(), close() and toggle() calls come in between; as update() keeps
\* being called no door stays in transition for ever.
C13_TransitionsComplete ==
    /\ [](\A p \in DOMAIN doors :
            ~Resting(doors[p]) => age[p] <= nframes - 2)
    /\ \A p \in AllTiles :
          /\ (p \in DOMAIN doors /\ doors[p].state = "OPENING")
                ~> (p \in DOMAIN doors /\ doors[p].state = "OPEN")
          /\ (p \in DOMAIN doors /\ doors[p].state = "CLOSING")
                ~> (p \in DOMAIN doors /\ doors[p].state = "CLOSED")

\* a closing door of four frames has had two updates and another door is
\* on its way open
C13_Witness ==
    /\ nframes = 4
    /\ \E p, q \in DOMAIN doors :
          /\ doors[p].state = "CLOSING" /\ age[p] = 2
          /\ doors[q].state = "OPENING" /\ age[q] = 1

====
